---- MODULE Spec2Model ----
(***************************************************************************)
(* A model of _generate_stub.py: the batch resolver list_modules (an       *)
(* os.walk over the package tree with in-loop pruning), the single-mode    *)
(* resolver get_module, and the top-level script that feeds the resolved   *)
(* tuples to stub().                                                       *)
(*                                                                         *)
(* Strings that the code splits or joins on '.' are sequences of their     *)
(* '.'-separated segments: "core.cpython-311.so" is <<"core",              *)
(* "cpython-311", "so">>, the relative name ".native.core" is <<"",        *)
(* "native", "core">> and "." is <<"", "">>.  Filesystem paths are         *)
(* sequences of their components; a component never contains a '.' or a    *)
(* separator, and no directory of the tree is named like the package.      *)
(***************************************************************************)
EXTENDS Integers, Sequences, FiniteSets, TLC

\* ------------------------------------------------------------------ bounds
\* directories below the package directory
MaxDirs == 2
\* files in the whole tree
MaxFiles == 4
\* entries of the search path before get_module is applied to it
MaxPathLen == 2
\* applications of get_module to one search path
MaxCalls == 2

\* ------------------------------------------------------------ the inputs
None == <<"None">>
\* the value of a name not yet bound: no resolved tuple has an empty name
Unset == << [ module |-> <<>>, name |-> <<>>, root |-> <<>> ] >>

PkgName == "mypkg"
\* --root: the package directory /pkg/mypkg, already absolute
Root == <<"pkg", PkgName>>
\* an entry the interpreter put on sys.path before the script ran
Site == <<"site">>

Native == "native"
Build == "build"
PyCache == "__pycache__"

\* every directory a tree of the model may contain (absolute paths)
NonRootDirs ==
  { Root \o <<Native>>, Root \o <<Build>>, Root \o <<PyCache>>,
    Root \o <<Native, Build>>, Root \o <<Build, Native>> }

InitPy == <<"__init__", "py">>
CoreSo == <<"core", "so">>
CoreTagSo == <<"core", "cpython-311", "so">>
\* an AppleDouble / hidden file: its name starts with '.'
DotCoreSo == <<"", "_core", "so">>

FileNames == { InitPy, CoreSo, CoreTagSo, DotCoreSo }

\* the order in which a directory listing yields names
FileOrder == << InitPy, CoreSo, CoreTagSo, DotCoreSo >>
DirOrder == << Native, Build, PyCache >>

\* -p in single mode: an absolute dotted name
SingleName == <<PkgName, Native, "core">>
\* -p in batch mode: nothing, a subpackage, or the package's own name
BatchPaths == { None, <<Native>>, <<PkgName>> }

VARIABLES
  harness,        \* "main": the script; "twice", "get": a function applied twice
  single,         \* args.single
  p,              \* args.p as a Path, or None
  package_path,   \* root.absolute()
  disk_dirs,      \* the directories below the package directory
  disk_files,     \* the files of the tree, as <<directory, filename>>
  sys_path,       \* sys.path
  sys_modules,    \* the names already imported (sys.modules)
  pc,             \* the position of the script
  package_name,   \* list_modules: the relative identity of line 9
  module_path,    \* list_modules: the walk root of line 20
  walk,           \* os.walk: [stack, root, dirs, files, fi]
  acc,            \* list_modules: the local list `modules`
  srcs,           \* for each entry of acc, the filename it was derived from
  modules,        \* the script's `modules`, Unset until list_modules returns
  ncand,          \* the candidate imports attempted (lines 31-32)
  emitted,        \* the calls of stub() made so far
  ei,             \* the index of the next tuple to emit
  err,            \* what raised, "none" if nothing did
  failed_at,      \* the index of the emission that raised, 0 if none did
  run,            \* "twice": which resolution is running
  first,          \* "twice": the result of the first resolution
  calls,          \* "get": applications of get_module so far
  inserts,        \* "get": insertions made by get_module so far
  sys_path0       \* "get": the search path before the first application

vars == << harness, single, p, package_path, disk_dirs, disk_files, sys_path,
           sys_modules, pc, package_name, module_path, walk, acc, srcs, modules,
           ncand, emitted, ei, err, failed_at, run, first, calls, inserts,
           sys_path0 >>

\* ------------------------------------------------------- paths and names
Last(s) == s[Len(s)]
Front(s) == SubSeq(s, 1, Len(s) - 1)

\* Path.parent
Parent(path) == Front(path)

\* Path.stem of a path whose last component has no suffix
Stem(path) == Last(path)

IsPrefix(s, t) == Len(s) <= Len(t) /\ SubSeq(t, 1, Len(s)) = s

\* os.path.relpath(path, start) for a path at or below start; "." is <<>>
RelPath(path, start) == SubSeq(path, Len(start) + 1, Len(path))

\* os.path.join(root, file), normalised: joining "" adds only a separator
JoinPath(dir, file) == IF file = "" THEN dir ELSE Append(dir, file)

\* ---------------------------------------------------------- the directory
\* the files of a directory, in listing order
ListFiles(dir) == SelectSeq(FileOrder, LAMBDA f : <<dir, f>> \in disk_files)

\* the subdirectories of a directory, in listing order
ListDirs(dir) == SelectSeq(DirOrder, LAMBDA d : Append(dir, d) \in disk_dirs)

IsDir(dir) == dir = Root \/ dir \in disk_dirs


\* ------------------------------------------------------------ list_modules
\* line 9: '.' + '.'.join(str(module_path).split('/')), or '.'
PackageName(mp) == IF mp = None THEN <<"", "">> ELSE <<"">> \o mp

\* a variant of line 11: sys.path.insert(0, ...) in place of append
InsertParentFront(sp, path) == <<Parent(path)>> \o sp

\* line 11: sys.path.append(str(package_path.parent))
AppendParent(sp, path) == Append(sp, Parent(path))

\* line 25: the names kept in dirs[:]
Pruned(dirs) == SelectSeq(dirs, LAMBDA d : d \notin {Build, PyCache})

\* a variant of line 26: any suffix counts ('.' in file)
IsArtifactAnySuffix(file) == Len(file) >= 2

\* line 26: file.endswith(".so")
IsArtifact(file) == Len(file) >= 2 /\ Last(file) = "so"

\* line 27: file.split('.')[0]
Basename(file) == file[1]

\* lines 28-29: splitext(relpath(join(root, file), module_path))[0] with the
\* separators replaced by '.'; relpath of the walk root itself is "."
RelModuleName(root, base, start) ==
  LET rel == RelPath(JoinPath(root, base), start)
  IN  IF rel = <<>> THEN <<"", "">> ELSE rel

\* a variant of line 30: the package identity is never prefixed
RelativeNameNoPrefix(pkgname, rel) == <<"">> \o rel

\* line 30: f"{package_name}.{module_name}", or f".{module_name}" for '.'
RelativeName(pkgname, rel) ==
  IF pkgname # <<"", "">> THEN pkgname \o rel ELSE <<"">> \o rel

\* line 33: f"{str(package_path.stem)}{module_name}"
AbsoluteName(stem, name) == <<stem \o Head(name)>> \o Tail(name)

\* ---------------------------------------------------- importlib.import_module
\* the leading dots of a relative name
RECURSIVE LeadingEmpty(_)
LeadingEmpty(name) ==
  IF name = <<>> \/ Head(name) # "" THEN 0 ELSE 1 + LeadingEmpty(Tail(name))

Level(name) ==
  IF LeadingEmpty(name) = Len(name) THEN Len(name) - 1 ELSE LeadingEmpty(name)

\* name[level:], as segments
AfterDots(name) ==
  IF LeadingEmpty(name) = Len(name) THEN <<>>
  ELSE SubSeq(name, Level(name) + 1, Len(name))

\* importlib._resolve_name against a package name without dots: more than
\* one leading dot is a relative import beyond the top-level package
Resolvable(name) ==
  /\ Level(name) <= 1
  /\ \A i \in 1..Len(AfterDots(name)) : AfterDots(name)[i] # ""

ResolveName(name, package) ==
  IF Level(name) = 0 THEN name ELSE <<package>> \o AfterDots(name)

\* where the path finder finds a top-level package: the first entry of the
\* search path that holds a directory of that name
PackageDirs(sp, pkg) ==
  { Append(sp[i], pkg) : i \in { j \in 1..Len(sp) : Append(sp[j], pkg) = Root } }

\* the directory of the package a resolved name addresses
NameDir(sp, abs) ==
  IF PackageDirs(sp, Head(abs)) = {} THEN <<>>
  ELSE (CHOOSE d \in PackageDirs(sp, Head(abs)) : TRUE) \o Tail(abs)

\* lines 20-21: the import has a __file__ to take the dirname of only for a
\* regular package, a directory holding __init__.py
HasFile(sp, abs) ==
  /\ NameDir(sp, abs) # <<>>
  /\ IsDir(NameDir(sp, abs))
  /\ <<NameDir(sp, abs), InitPy>> \in disk_files

\* what an import of a resolved name can do: an imported name is served from
\* sys.modules; any other import may raise in the target's own code
ImportOutcomes(abs) == IF abs \in sys_modules THEN {TRUE} ELSE BOOLEAN

\* ---------------------------------------------------------------- get_module
\* a variant of lines 41-42: the insertion without its guard
InsertFrontAlways(sp, path) == <<path>> \o sp

\* lines 41-42: if sys.path[0] != path: sys.path.insert(0, path)
InsertFront(sp, path) == IF sp[1] # path THEN <<path>> \o sp ELSE sp

\* ------------------------------------------------------------ the top level
\* variants of lines 109-116: a failed candidate import is skipped, and a
\* failed emission does not stop the loop
CaughtCandidate(kind, resume) ==
  IF kind = "cand_import" THEN resume ELSE "error"

CaughtEmit(kind, resume) == IF kind = "emit" THEN resume ELSE "error"

\* lines 109-116: nothing catches; what raises ends the run
Uncaught(kind, resume) == "error"

\* line 113 and line 116: the arguments of stub()
StubCall(entry, isSingle, path) ==
  [ name |-> entry.name,
    out |-> IF isSingle THEN entry.root ELSE Parent(path) ]

NoWalk == [ stack |-> <<>>, root |-> <<>>, dirs |-> <<>>, files |-> <<>>, fi |-> 0 ]

\* where list_modules and get_module return to
AfterResolve == IF harness = "main" THEN "emit" ELSE "returned"


\* ----------------------------------------------------------------- the trees
TreeDirs ==
  { E \in SUBSET NonRootDirs :
      /\ Cardinality(E) <= MaxDirs
      /\ \A d \in E : Parent(d) = Root \/ Parent(d) \in E }

TreeFiles(E) ==
  { F \in SUBSET ((E \cup {Root}) \X FileNames) : Cardinality(F) <= MaxFiles }

\* what every run starts from, before its inputs are drawn
Blank ==
  /\ sys_modules = {}
  /\ package_name = <<>>
  /\ module_path = <<>>
  /\ walk = NoWalk
  /\ acc = <<>>
  /\ srcs = <<>>
  /\ modules = Unset
  /\ ncand = 0
  /\ emitted = <<>>
  /\ ei = 0
  /\ err = "none"
  /\ failed_at = 0
  /\ run = 1
  /\ first = Unset
  /\ calls = 0
  /\ inserts = 0

\* the script after argument parsing (lines 93-103), --eval not given
Init ==
  /\ Blank
  /\ harness = "main"
  /\ package_path = Root
  /\ single \in BOOLEAN
  /\ p \in (IF single THEN {SingleName} ELSE BatchPaths)
  /\ disk_dirs \in (IF single THEN {{}} ELSE TreeDirs)
  /\ disk_files \in (IF single THEN {{}} ELSE TreeFiles(disk_dirs))
  /\ sys_path = <<Site>>
  /\ sys_path0 = <<Site>>
  /\ pc = "start"

\* ------------------------------------------------------------- the actions
\* line 104, then the branch of line 109
InsertRoot ==
  /\ pc = "start"
  /\ sys_path' = <<package_path>> \o sys_path
  /\ pc' = IF single THEN "get_module" ELSE "list_modules"
  /\ UNCHANGED << harness, single, p, package_path, disk_dirs, disk_files,
                  sys_modules, package_name, module_path, walk, acc, srcs, modules,
                  ncand, emitted, ei, err, failed_at, run, first, calls,
                  inserts, sys_path0 >>

\* list_modules, lines 9-11
ListModulesEnter ==
  /\ pc = "list_modules"
  /\ package_name' = PackageName(p)
  /\ sys_path' = AppendParent(sys_path, package_path)
  /\ acc' = <<>>
  /\ srcs' = <<>>
  /\ walk' = NoWalk
  /\ module_path' = <<>>
  /\ pc' = "import_root"
  /\ UNCHANGED << harness, single, p, package_path, disk_dirs, disk_files,
                  sys_modules, modules, ncand, emitted, ei, err, failed_at,
                  run, first, calls, inserts, sys_path0 >>

\* list_modules, lines 20-22: the import of the package identity and the
\* dirname of its __file__
ImportRoot ==
  /\ pc = "import_root"
  /\ LET abs == ResolveName(package_name, Stem(package_path))
         found == Resolvable(package_name) /\ HasFile(sys_path, abs)
     IN  \/ /\ found
            /\ TRUE \in ImportOutcomes(abs)
            /\ sys_modules' = sys_modules \cup {abs}
            /\ module_path' = NameDir(sys_path, abs)
            /\ walk' = [NoWalk EXCEPT !.stack = <<NameDir(sys_path, abs)>>]
            /\ pc' = "walk"
            /\ err' = err
         \/ /\ ~found \/ FALSE \in ImportOutcomes(abs)
            /\ pc' = Uncaught("root_import", "walk")
            /\ err' = "root_import"
            /\ UNCHANGED << sys_modules, module_path, walk >>
  /\ UNCHANGED << harness, single, p, package_path, disk_dirs, disk_files,
                  sys_path, package_name, acc, srcs, modules, ncand, emitted, ei,
                  failed_at, run, first, calls, inserts, sys_path0 >>

\* os.walk(topdown=True) yields the next directory (line 23)
WalkYield ==
  /\ pc = "walk"
  /\ walk.stack # <<>>
  /\ walk' = [ stack |-> Tail(walk.stack),
               root |-> Head(walk.stack),
               dirs |-> ListDirs(Head(walk.stack)),
               files |-> ListFiles(Head(walk.stack)),
               fi |-> 1 ]
  /\ pc' = "files"
  /\ UNCHANGED << harness, single, p, package_path, disk_dirs, disk_files,
                  sys_path, sys_modules, package_name, module_path, acc, srcs,
                  modules, ncand, emitted, ei, err, failed_at, run, first,
                  calls, inserts, sys_path0 >>

\* one pass of the body of `for file in files` (lines 24-34)
FileStep ==
  /\ pc = "files"
  /\ walk.fi <= Len(walk.files)
  /\ LET file == walk.files[walk.fi]
         kept == Pruned(walk.dirs)
         base == Basename(file)
         rel == RelModuleName(walk.root, base, module_path)
         name == RelativeName(package_name, rel)
         abs == ResolveName(name, Stem(package_path))
         entry == [ module |-> abs,
                    name |-> AbsoluteName(Stem(package_path), name),
                    root |-> walk.root ]
     IN  \/ /\ ~IsArtifact(file)
            /\ walk' = [walk EXCEPT !.dirs = kept, !.fi = walk.fi + 1]
            /\ UNCHANGED << sys_modules, acc, srcs, ncand, pc, err >>
         \/ /\ IsArtifact(file)
            /\ Resolvable(name)
            /\ TRUE \in ImportOutcomes(abs)
            /\ walk' = [walk EXCEPT !.dirs = kept, !.fi = walk.fi + 1]
            /\ sys_modules' = sys_modules \cup {abs}
            /\ acc' = Append(acc, entry)
            /\ srcs' = Append(srcs, file)
            /\ ncand' = ncand + 1
            /\ UNCHANGED << pc, err >>
         \/ /\ IsArtifact(file)
            /\ ~Resolvable(name) \/ FALSE \in ImportOutcomes(abs)
            /\ walk' = [walk EXCEPT !.dirs = kept, !.fi = walk.fi + 1]
            /\ ncand' = ncand + 1
            /\ pc' = Uncaught("cand_import", "files")
            /\ err' = "cand_import"
            /\ UNCHANGED << sys_modules, acc, srcs >>
  /\ UNCHANGED << harness, single, p, package_path, disk_dirs, disk_files,
                  sys_path, package_name, module_path, modules, emitted, ei,
                  failed_at, run, first, calls, inserts, sys_path0 >>

\* the file loop is over: os.walk resumes and queues the directories left
\* in dirs, depth first
WalkDescend ==
  /\ pc = "files"
  /\ walk.fi > Len(walk.files)
  /\ walk' = [walk EXCEPT
                !.stack = [ i \in 1..Len(walk.dirs) |->
                              Append(walk.root, walk.dirs[i]) ] \o walk.stack]
  /\ pc' = "walk"
  /\ UNCHANGED << harness, single, p, package_path, disk_dirs, disk_files,
                  sys_path, sys_modules, package_name, module_path, acc, srcs,
                  modules, ncand, emitted, ei, err, failed_at, run, first,
                  calls, inserts, sys_path0 >>

\* the walk is exhausted: return modules (line 35) to line 110
ListModulesReturn ==
  /\ pc = "walk"
  /\ walk.stack = <<>>
  /\ modules' = acc
  /\ ei' = 1
  /\ pc' = AfterResolve
  /\ UNCHANGED << harness, single, p, package_path, disk_dirs, disk_files,
                  sys_path, sys_modules, package_name, module_path, walk, acc, srcs,
                  ncand, emitted, err, failed_at, run, first, calls, inserts,
                  sys_path0 >>


\* get_module, lines 38-44
GetModule ==
  /\ pc = "get_module"
  /\ \/ /\ sys_path = <<>>
        /\ pc' = Uncaught("index", "get_module")
        /\ err' = "index"
        /\ UNCHANGED << sys_path, sys_modules, modules, ei, inserts >>
     \/ /\ sys_path # <<>>
        /\ sys_path' = InsertFront(sys_path, package_path)
        /\ inserts' = inserts + (Len(sys_path') - Len(sys_path))
        /\ \/ /\ TRUE \in ImportOutcomes(p)
              /\ sys_modules' = sys_modules \cup {p}
              /\ modules' = << [ module |-> p, name |-> p, root |-> package_path ] >>
              /\ ei' = 1
              /\ pc' = AfterResolve
              /\ err' = err
           \/ /\ FALSE \in ImportOutcomes(p)
              /\ pc' = Uncaught("import", "get_module")
              /\ err' = "import"
              /\ UNCHANGED << sys_modules, modules, ei >>
  /\ calls' = calls + 1
  /\ UNCHANGED << harness, single, p, package_path, disk_dirs, disk_files,
                  package_name, module_path, walk, acc, srcs, ncand, emitted,
                  failed_at, run, first, sys_path0 >>

\* one call of stub(): the loop of lines 111-113, or line 116
Emit ==
  /\ pc = "emit"
  /\ ei <= Len(modules)
  /\ emitted' = Append(emitted, StubCall(modules[ei], single, package_path))
  /\ ei' = ei + 1
  /\ \/ UNCHANGED << pc, err, failed_at >>
     \/ /\ pc' = Uncaught("emit", "emit")
        /\ err' = "emit"
        /\ failed_at' = IF failed_at = 0 THEN ei ELSE failed_at
  /\ UNCHANGED << harness, single, p, package_path, disk_dirs, disk_files,
                  sys_path, sys_modules, package_name, module_path, walk, acc, srcs,
                  modules, ncand, run, first, calls, inserts, sys_path0 >>

\* the script falls off its end
Finish ==
  /\ pc = "emit"
  /\ ei > Len(modules)
  /\ pc' = "done"
  /\ UNCHANGED << harness, single, p, package_path, disk_dirs, disk_files,
                  sys_path, sys_modules, package_name, module_path, walk, acc, srcs,
                  modules, ncand, emitted, ei, err, failed_at, run, first,
                  calls, inserts, sys_path0 >>

Next ==
  \/ InsertRoot
  \/ ListModulesEnter
  \/ ImportRoot
  \/ WalkYield
  \/ FileStep
  \/ WalkDescend
  \/ ListModulesReturn
  \/ GetModule
  \/ Emit
  \/ Finish

Spec == Init /\ [][Next]_vars

\* ------------------------------------- list_modules applied twice to one tree
\* first with module_path = None, then with an explicit module_path
InitTwice ==
  /\ Blank
  /\ harness = "twice"
  /\ package_path = Root
  /\ single = FALSE
  /\ p = None
  /\ disk_dirs \in TreeDirs
  /\ disk_files \in TreeFiles(disk_dirs)
  /\ sys_path = <<Site>>
  /\ sys_path0 = <<Site>>
  /\ pc = "start"

SecondRun ==
  /\ harness = "twice"
  /\ pc = "returned"
  /\ run = 1
  /\ first' = modules
  /\ modules' = Unset
  /\ p' \in BatchPaths \ {None}
  /\ run' = 2
  /\ pc' = "list_modules"
  /\ UNCHANGED << harness, single, package_path, disk_dirs, disk_files,
                  sys_path, sys_modules, package_name, module_path, walk, acc, srcs,
                  ncand, emitted, ei, err, failed_at, calls, inserts,
                  sys_path0 >>

NextTwice ==
  \/ InsertRoot
  \/ ListModulesEnter
  \/ ImportRoot
  \/ WalkYield
  \/ FileStep
  \/ WalkDescend
  \/ ListModulesReturn
  \/ SecondRun

SpecTwice == InitTwice /\ [][NextTwice]_vars

\* --------------------------------- get_module applied to any search path
PathEntries == { Root, Parent(Root), Site }

RECURSIVE SeqsUpTo(_, _)
SeqsUpTo(S, n) ==
  IF n = 0 THEN { <<>> }
  ELSE SeqsUpTo(S, n - 1) \cup
       { Append(s, x) : s \in { t \in SeqsUpTo(S, n - 1) : Len(t) = n - 1 }, x \in S }

InitGet ==
  /\ Blank
  /\ harness = "get"
  /\ package_path \in { Root, Site }
  /\ single = TRUE
  /\ p = SingleName
  /\ disk_dirs = {}
  /\ disk_files = {}
  /\ sys_path \in SeqsUpTo(PathEntries, MaxPathLen)
  /\ sys_path0 = sys_path
  /\ pc = "get_module"

\* the caller applies get_module again, whether or not it raised
GetAgain ==
  /\ harness = "get"
  /\ pc \in { "returned", "error" }
  /\ calls < MaxCalls
  /\ pc' = "get_module"
  /\ err' = "none"
  /\ UNCHANGED << harness, single, p, package_path, disk_dirs, disk_files,
                  sys_path, sys_modules, package_name, module_path, walk, acc, srcs,
                  modules, ncand, emitted, ei, failed_at, run, first, calls,
                  inserts, sys_path0 >>

NextGet ==
  \/ GetModule
  \/ GetAgain

SpecGet == InitGet /\ [][NextGet]_vars


\* ---------------------------------------------------------------- the claims
Names(ms) == { ms[i].name : i \in 1..Len(ms) }

PrunedNames == { Build, PyCache }

\* a directory at or below one named build or __pycache__
BelowPrunedName(dir) ==
  \E k \in 1..Len(RelPath(dir, Root)) : RelPath(dir, Root)[k] \in PrunedNames

EndsWithSo(f) == Len(f) >= 2 /\ f[Len(f)] = "so"

BatchRun == harness = "main" /\ ~single

\* C1: no entry of the result list_modules returns lies in or beneath a
\* directory named build or __pycache__.
C1_NothingBelowBuildOrCache ==
  (BatchRun /\ modules # Unset) =>
    \A i \in 1..Len(modules) : ~BelowPrunedName(modules[i].root)

\* C2: when the import of the package root or of a candidate raises, the
\* batch ends there: list_modules has returned nothing and stub() was never
\* called; and a call of stub() is made only after every import is done.
C2_ImportFailureAbortsBatch ==
  BatchRun =>
    /\ err \in { "root_import", "cand_import" } =>
         (pc = "error" /\ modules = Unset /\ emitted = <<>>)
    /\ emitted # <<>> =>
         (modules # Unset /\ walk.stack = <<>> /\ ncand = Len(modules))

C2_Witness ==
  /\ BatchRun
  /\ err = "cand_import"
  /\ pc = "error"
  /\ acc # <<>>

\* C3: stub() is called on the tuples in result order, and once the call for
\* the k-th tuple has raised the run has ended and no later tuple is emitted.
C3_EmissionStopsAtFirstError ==
  (BatchRun /\ modules # Unset) =>
    /\ Len(emitted) <= Len(modules)
    /\ \A i \in 1..Len(emitted) :
         emitted[i].name = modules[i].name /\ emitted[i].out = <<"pkg">>
    /\ failed_at # 0 =>
         (Len(emitted) = failed_at /\ pc = "error" /\ err = "emit")

C3_Witness ==
  /\ BatchRun
  /\ failed_at # 0
  /\ modules # Unset
  /\ failed_at < Len(modules)


\* C4 as stated: two applications of get_module with the same package_path
\* make exactly one insertion, and package_path is the first entry afterwards.
C4_ExactlyOneInsertion ==
  (harness = "get" /\ calls = 2) =>
    (inserts = 1 /\ sys_path # <<>> /\ sys_path[1] = package_path)

\* C4 as amended: on a non-empty search path get_module inserts package_path
\* at most once however often it is applied: once, at the front, when the
\* first entry was another path, and never when it was package_path already;
\* package_path is the first entry afterwards.  On an empty search path the
\* guard raises and nothing is inserted.
C4_AtMostOneInsertion ==
  (harness = "get" /\ calls >= 1) =>
    IF sys_path0 = <<>>
    THEN sys_path = <<>> /\ inserts = 0 /\ modules = Unset
    ELSE /\ sys_path[1] = package_path
         /\ inserts = (IF sys_path0[1] = package_path THEN 0 ELSE 1)
         /\ sys_path = (IF sys_path0[1] = package_path THEN sys_path0
                        ELSE <<package_path>> \o sys_path0)

C4_Witness ==
  /\ harness = "get"
  /\ calls = 2
  /\ pc = "returned"
  /\ inserts = 1
  /\ Len(sys_path0) = 2
  /\ sys_path0[2] = package_path

\* C5 as stated: resolving with module_path = None and resolving with
\* module_path equal to the package's own name yield the same qualified names.
C5_SelfEqualsPackageName ==
  (harness = "twice" /\ run = 2 /\ p = <<PkgName>>
     /\ pc \in { "returned", "error" }) =>
    (pc = "returned" /\ Names(modules) = Names(first))

\* C5 as amended: an explicit module_path is a subpackage path relative to the
\* package; when both resolutions return, resolving with module_path = S
\* yields exactly the qualified names that resolving with None yields for the
\* artifacts found in or beneath the directory of S.
C5_SubpackageNamesAgree ==
  (harness = "twice" /\ run = 2 /\ pc = "returned") =>
    Names(modules) =
      { first[i].name :
          i \in { j \in 1..Len(first) : IsPrefix(Root \o p, first[j].root) } }

C5_Witness ==
  /\ harness = "twice"
  /\ run = 2
  /\ pc = "returned"
  /\ modules # <<>>
  /\ Len(first) > Len(modules)

\* C6: the basename derived from an artifact's filename is the text before
\* its first '.', and it is the last segment of the dotted name of the entry.
C6_BasenameIsLastSegment ==
  (harness = "main") =>
    \A i \in 1..Len(acc) :
      /\ Basename(srcs[i]) = Head(srcs[i])
      /\ Last(acc[i].name) = Head(srcs[i])

\* C7: with module_path = None every artifact d1/.../dk/<basename>...so that
\* is not below a directory named build or __pycache__ gives exactly one
\* entry, named <package>.d1. ... .dk.<basename>, with its directory.
C7_OneEntryPerArtifact ==
  (BatchRun /\ p = None /\ modules # Unset) =>
    \A df \in disk_files :
      (EndsWithSo(df[2]) /\ ~BelowPrunedName(df[1])) =>
        Cardinality({ i \in 1..Len(modules) :
                        /\ srcs[i] = df[2]
                        /\ modules[i].root = df[1]
                        /\ modules[i].name =
                             <<PkgName>> \o RelPath(df[1], Root) \o <<Head(df[2])>>
                    }) = 1

\* C8: a tree without any file ending in .so, whose root import succeeded,
\* resolves to the empty sequence: nothing raises, no candidate is imported
\* and stub() is never called.
C8_NoArtifactsNoWork ==
  (BatchRun
     /\ pc \notin { "start", "list_modules", "import_root" }
     /\ err # "root_import"
     /\ \A df \in disk_files : ~EndsWithSo(df[2])) =>
    /\ pc # "error"
    /\ err = "none"
    /\ ncand = 0
    /\ acc = <<>>
    /\ emitted = <<>>
    /\ pc \in { "emit", "done" } => modules = <<>>

C8_Witness ==
  /\ BatchRun
  /\ pc = "done"
  /\ modules = <<>>
  /\ disk_dirs # {}
  /\ Cardinality(disk_files) >= 2
  /\ \A df \in disk_files : ~EndsWithSo(df[2])

\* C9 as stated: once list_modules has changed the search path, its first
\* entry is the parent of package_path.
C9_ParentIsFirstEntry ==
  (BatchRun /\ pc \in { "import_root", "walk", "files" }) =>
    sys_path[1] = Parent(package_path)

\* C9 as amended: list_modules appends the parent of package_path at the end
\* of the search path: from the mutation on the last entry is the parent, the
\* first entry stays the package directory the script inserted, and the entry
\* is never removed.
C9_ParentIsLastEntry ==
  (BatchRun /\ pc \notin { "start", "list_modules" }) =>
    /\ Last(sys_path) = <<"pkg">>
    /\ sys_path[1] = Root
    /\ Len(sys_path) = 3

C9_Witness ==
  /\ BatchRun
  /\ pc = "files"
  /\ acc # <<>>
  /\ Last(sys_path) = <<"pkg">>

\* C10: no two entries of the result of list_modules have the same
\* qualified name.
C10_NamesUnique ==
  (BatchRun /\ modules # Unset) =>
    \A i, j \in 1..Len(modules) :
      modules[i].name = modules[j].name => i = j

====
